---------------------------- MODULE Spec2Model ----------------------------
(***************************************************************************)
(* A model of the merge-request reconciliation of SyncGitlab2MSProject:    *)
(* sync_mrs.py (record index, task matcher, field synchronizer and the     *)
(* orchestrating run), sync_func.py (the URL of a task) and the record     *)
(* accessors of gitlab_merge_requests.py.                                   *)
(*                                                                         *)
(* Strings are sequences of tokens, so that startswith is the prefix       *)
(* relation and split(";") a real scan.  An Optional value is <<>> for     *)
(* None and <<v>> for a value v.  A MergeRequest object is named by its    *)
(* position in the list handed to the run (0 stands for None).             *)
(***************************************************************************)
EXTENDS Integers, Sequences, FiniteSets, TLC

(***************************************************************************)
(* Bounds of the model.                                                    *)
(***************************************************************************)
\* records in the list handed to a run; identifiers and URL paths range
\* over 1..MaxRecords
MaxRecords == 3
\* task rows of the document before the first run
MaxTasks == 1
\* runs of the orchestrator on the same document and record list
MaxRuns == 2
\* writes the document refuses in the course of the runs
MaxFaults == 1
\* issues in the list handed to the combined run
MaxIssues == 2

(***************************************************************************)
(* Program constants.                                                      *)
(***************************************************************************)
\* sync_mrs.py:21, the literal kept as a single token
MR_PREFIX == <<"!!DON'T CHANGE!! MR:">>
\* sync_mrs.py:23
DEFAULT_DURATION == 8 * 60

None == <<>>
Some(v) == <<v>>
IsNone(o) == o = <<>>
Val(o) == o[1]

(***************************************************************************)
(* Strings.                                                                *)
(***************************************************************************)
Digits == <<"0", "1", "2", "3", "4", "5", "6", "7", "8", "9">>

\* str.startswith
StartsWith(s, prefix) ==
    /\ Len(prefix) <= Len(s)
    /\ SubSeq(s, 1, Len(prefix)) = prefix

\* str(n) of a natural number, as f"{n}" formats it
RECURSIVE NatStr(_)
NatStr(n) ==
    IF n < 10 THEN <<Digits[n + 1]>>
    ELSE NatStr(n \div 10) \o <<Digits[(n % 10) + 1]>>

\* f"{n}" of an integer
IntStr(n) == IF n < 0 THEN <<"-">> \o NatStr(0 - n) ELSE NatStr(n)

\* f"{v}" of an Optional[int]: None prints as the word None
OptStr(o) == IF IsNone(o) THEN <<"None">> ELSE IntStr(Val(o))

IsDigit(c) == \E d \in 1..10 : Digits[d] = c
DigitVal(c) == (CHOOSE d \in 1..10 : Digits[d] = c) - 1

RECURSIVE DigitsVal(_, _)
DigitsVal(s, acc) ==
    IF s = <<>> THEN acc
    ELSE DigitsVal(Tail(s), 10 * acc + DigitVal(Head(s)))

\* int(s): the number, or ValueError for what is no decimal numeral
ParseInt(s) ==
    LET neg == s # <<>> /\ Head(s) = "-"
        body == IF neg THEN Tail(s) ELSE s
    IN  IF body = <<>> \/ \E i \in 1..Len(body) : ~IsDigit(body[i])
        THEN [exc |-> "ValueError", val |-> 0]
        ELSE [exc |-> "", val |-> IF neg THEN 0 - DigitsVal(body, 0)
                                          ELSE DigitsVal(body, 0)]

\* s.split(";")[0]: the tokens before the first ";"
RECURSIVE FirstSegment(_)
FirstSegment(s) ==
    IF s = <<>> \/ Head(s) = ";" THEN <<>>
    ELSE <<Head(s)>> \o FirstSegment(Tail(s))


(***************************************************************************)
(* MergeRequest (gitlab_merge_requests.py): the wrapped GitLab object.     *)
(* The attributes the synchronizer reads come in three kinds of record;    *)
(* identifier, web URL and successor are chosen apart from them.           *)
(***************************************************************************)
\* the instance URL handed to the run, and a host outside it
gitlab_url == <<"https://gitlab/">>
OtherHost == <<"https://elsewhere/">>

\* the web URL GitLab gives the record at path p of the instance
WebUrlAt(p) == gitlab_url \o NatStr(p)

\* obj attributes of a closed record without checklist, estimated 3600 s
ClosedObj ==
    [title |-> <<"Fix crash">>, state |-> <<"closed">>,
     has_tasks |-> FALSE, completed_count |-> 0, count |-> 0,
     time_estimate |-> Some(3600), total_time_spent |-> Some(1800),
     due_date |-> None, created_at |-> Some(10), closed_at |-> Some(20),
     assignees |-> <<"ann">>, labels |-> <<"bug", "ui">>,
     group_id |-> None]

\* an open record with a checklist, one item of two done, no estimate
OpenObj ==
    [title |-> <<"Add feature">>, state |-> <<"opened">>,
     has_tasks |-> TRUE, completed_count |-> 1, count |-> 2,
     time_estimate |-> None, total_time_spent |-> None,
     due_date |-> Some(30), created_at |-> Some(11), closed_at |-> None,
     assignees |-> <<>>, labels |-> <<>>,
     group_id |-> Some(7)]

\* a merged record without checklist, estimated at exactly eight hours
MergedObj ==
    [title |-> <<"Refactor">>, state |-> <<"merged">>,
     has_tasks |-> FALSE, completed_count |-> 0, count |-> 0,
     time_estimate |-> Some(28800), total_time_spent |-> Some(0),
     due_date |-> None, created_at |-> Some(12), closed_at |-> None,
     assignees |-> <<"bob", "ann">>, labels |-> <<"tech">>,
     group_id |-> Some(0 - 4)]

Objs == <<ClosedObj, OpenObj, MergedObj>>

\* MergeRequest(obj): the record with identifier id at URL path p, moved to
\* the identifier in moved (an Optional), with the attributes of kind k
MergeRequest(id, p, moved, k) ==
    [id |-> id, iid |-> id, project_id |-> 1, web_url |-> WebUrlAt(p),
     moved_to_id |-> moved, obj |-> Objs[k]]

\* MergeRequest.is_closed: str(state).lower().strip().startswith("closed");
\* GitLab's states are lower case and unpadded already
is_closed(mr) == StartsWith(mr.obj.state, <<"closed">>)

\* round(x / y * 100) for 0 <= x, 0 < y: Python rounds a tie to the even
\* neighbour
RoundPercent(x, y) ==
    LET q == (100 * x) \div y
        r == (100 * x) % y
    IN  IF 2 * r < y THEN q
        ELSE IF 2 * r > y THEN q + 1
        ELSE IF q % 2 = 0 THEN q ELSE q + 1

\* MergeRequest.percentage_tasks_done of a record that is not moved (the
\* synchronizer reads it of no other)
percentage_tasks_done(mr) ==
    IF is_closed(mr) THEN 100
    ELSE IF ~mr.obj.has_tasks THEN 0
    ELSE RoundPercent(mr.obj.completed_count, mr.obj.count)

\* an estimate handed on in seconds
time_estimatedInSeconds(mr) ==
    IF IsNone(mr.obj.time_estimate) THEN None
    ELSE Some(Val(mr.obj.time_estimate))

\* MergeRequest.time_estimated followed by int(...): seconds / 60, truncated
time_estimated(mr) ==
    IF IsNone(mr.obj.time_estimate) THEN None
    ELSE Some(Val(mr.obj.time_estimate) \div 60)

\* MergeRequest.time_spent_total: seconds / 60, a float; the seconds here are
\* multiples of 60, so the quotient is exact
time_spent_total(mr) ==
    IF IsNone(mr.obj.total_time_spent) THEN None
    ELSE Some(Val(mr.obj.total_time_spent) \div 60)

\* MergeRequest.full_ref
full_ref(mr) == <<"group/project!">> \o NatStr(mr.iid)

\* get_merge_request_ref_id
get_merge_request_ref_id(mr) == mr.id

\* get_merge_request_web_url
get_merge_request_web_url(mr) == mr.web_url

(***************************************************************************)
(* Task (ms_project.py): a row of the document, a bag of typed fields.     *)
(***************************************************************************)
\* the row MSProject.add_task(name) appends: MS Project's defaults, a one
\* day estimated duration among them
NewTask(name) ==
    [name |-> name, text30 |-> <<>>, text29 |-> None, text28 |-> <<>>,
     hyperlink_name |-> <<>>, hyperlink_address |-> None,
     deadline |-> None, work |-> 0, duration |-> DEFAULT_DURATION,
     estimated |-> TRUE, actual_work |-> 0, percent_complete |-> 0,
     actual_start |-> None, actual_finish |-> None,
     resource_names |-> <<>>, has_children |-> FALSE]

\* the text after "; ".join of the quoted labels
RECURSIVE JoinLabels(_)
JoinLabels(labels) ==
    IF labels = <<>> THEN <<>>
    ELSE IF Len(labels) = 1 THEN <<"\"", Head(labels), "\"">>
    ELSE <<"\"", Head(labels), "\"", "; ">> \o JoinLabels(Tail(labels))

(***************************************************************************)
(* Reference codec (sync_mrs.py 42-54).                                    *)
(***************************************************************************)
\* the string set_merge_request_ref_to_task writes to text30
BackReference(mr) ==
    MR_PREFIX \o IntStr(mr.id) \o <<";">> \o OptStr(mr.obj.group_id)
      \o <<";">> \o IntStr(mr.project_id) \o <<";">> \o IntStr(mr.iid)

\* get_merge_request_ref_from_task: None, the identifier, or the ValueError
\* of int() on a first segment that is no numeral
get_merge_request_ref_from_task(task) ==
    IF task.text30 # <<>> /\ StartsWith(task.text30, MR_PREFIX)
    THEN LET values0 == FirstSegment(SubSeq(task.text30, Len(MR_PREFIX) + 1,
                                            Len(task.text30)))
             n == ParseInt(values0)
         IN  [exc |-> n.exc, ref |-> IF n.exc = "" THEN Some(n.val) ELSE None]
    ELSE [exc |-> "", ref |-> None]

(***************************************************************************)
(* sync_func.py                                                            *)
(***************************************************************************)
is_gitlab_hyperlink(url, base) == StartsWith(url, base)

\* check_get_url of get_weburl_from_task
check_get_url(value, base) ==
    IF ~IsNone(value) /\ is_gitlab_hyperlink(Val(value), base)
    THEN value ELSE None

\* a reading of the URL that tries text29 before the hyperlink
get_weburl_from_taskEchoFirst(task, base) ==
    IF ~IsNone(check_get_url(task.text29, base))
    THEN check_get_url(task.text29, base)
    ELSE check_get_url(task.hyperlink_address, base)

get_weburl_from_task(task, base) ==
    IF ~IsNone(check_get_url(task.hyperlink_address, base))
    THEN check_get_url(task.hyperlink_address, base)
    ELSE check_get_url(task.text29, base)

(***************************************************************************)
(* MergeRequestFinder (sync_mrs.py 152-206).  A dict is a function on the  *)
(* set of its keys; its values are positions in the list.                  *)
(***************************************************************************)
Put(d, k, v) == [x \in DOMAIN d \cup {k} |-> IF x = k THEN v ELSE d[x]]

EmptyDict == [x \in {} |-> 0]

\* the loop of __init__ from record i on: both dicts, or the exception with
\* the two records its message names
RECURSIVE FinderLoop(_, _, _, _)
FinderLoop(mrs, i, refs, urls) ==
    IF i > Len(mrs)
    THEN [exc |-> "", ref_id_to_merge_request |-> refs,
          web_url_to_merge_request |-> urls, first |-> 0, second |-> 0]
    ELSE LET ref_id == get_merge_request_ref_id(mrs[i])
             web_url == get_merge_request_web_url(mrs[i])
         IN  IF ref_id \in DOMAIN refs
             THEN [exc |-> "MergeRequestReferenceDuplicated",
                   ref_id_to_merge_request |-> refs,
                   web_url_to_merge_request |-> urls,
                   first |-> refs[ref_id], second |-> i]
             ELSE IF web_url \in DOMAIN urls
             THEN [exc |-> "MergeRequestReferenceDuplicated",
                   ref_id_to_merge_request |-> Put(refs, ref_id, i),
                   web_url_to_merge_request |-> urls,
                   first |-> urls[web_url], second |-> i]
             ELSE FinderLoop(mrs, i + 1, Put(refs, ref_id, i),
                             Put(urls, web_url, i))

\* an index in which a later record silently replaces an earlier one
MergeRequestFinderLastWins(mrs) ==
    [exc |-> "",
     ref_id_to_merge_request |->
        [k \in {mrs[i].id : i \in DOMAIN mrs} |->
            CHOOSE i \in DOMAIN mrs :
                mrs[i].id = k /\ \A j \in DOMAIN mrs : mrs[j].id = k => j <= i],
     web_url_to_merge_request |->
        [u \in {mrs[i].web_url : i \in DOMAIN mrs} |->
            CHOOSE i \in DOMAIN mrs :
                mrs[i].web_url = u
                  /\ \A j \in DOMAIN mrs : mrs[j].web_url = u => j <= i],
     first |-> 0, second |-> 0]

MergeRequestFinder(mrs) == FinderLoop(mrs, 1, EmptyDict, EmptyDict)

\* a lookup that answers None for a key the dict lacks, as dict.get does
by_ref_idOrNone(f, ref_id) ==
    IF IsNone(ref_id) THEN [exc |-> "", mr |-> 0]
    ELSE IF Val(ref_id) \in DOMAIN f.ref_id_to_merge_request
    THEN [exc |-> "", mr |-> f.ref_id_to_merge_request[Val(ref_id)]]
    ELSE [exc |-> "", mr |-> 0]

\* by_ref_id: None for None, the record of a key of the dict, KeyError else
by_ref_id(f, ref_id) ==
    IF IsNone(ref_id) THEN [exc |-> "", mr |-> 0]
    ELSE IF Val(ref_id) \in DOMAIN f.ref_id_to_merge_request
    THEN [exc |-> "", mr |-> f.ref_id_to_merge_request[Val(ref_id)]]
    ELSE [exc |-> "KeyError", mr |-> 0]

\* by_web_url
by_web_url(f, web_url) ==
    IF IsNone(web_url) THEN [exc |-> "", mr |-> 0]
    ELSE IF Val(web_url) \in DOMAIN f.web_url_to_merge_request
    THEN [exc |-> "", mr |-> f.web_url_to_merge_request[Val(web_url)]]
    ELSE [exc |-> "KeyError", mr |-> 0]

(***************************************************************************)
(* find_related_merge_request (sync_mrs.py 209-230): the back-reference    *)
(* first, then the URL; a KeyError of either lookup is caught and logged.  *)
(***************************************************************************)
\* a matcher that tries the URL before the back-reference
FirstFoundByUrl(ref, a, b) ==
    IF ref.exc # "" THEN [exc |-> ref.exc, mr |-> 0]
    ELSE IF b.exc = "" /\ b.mr # 0 THEN [exc |-> "", mr |-> b.mr]
    ELSE IF a.exc = "" /\ a.mr # 0 THEN [exc |-> "", mr |-> a.mr]
    ELSE [exc |-> "", mr |-> 0]

\* a matcher without the two except clauses
FirstFoundRaising(ref, a, b) ==
    IF ref.exc # "" THEN [exc |-> ref.exc, mr |-> 0]
    ELSE IF a.exc # "" THEN [exc |-> a.exc, mr |-> 0]
    ELSE IF a.mr # 0 THEN [exc |-> "", mr |-> a.mr]
    ELSE IF b.exc # "" THEN [exc |-> b.exc, mr |-> 0]
    ELSE [exc |-> "", mr |-> b.mr]

FirstFound(ref, a, b) ==
    IF ref.exc # "" THEN [exc |-> ref.exc, mr |-> 0]
    ELSE IF a.exc = "" /\ a.mr # 0 THEN [exc |-> "", mr |-> a.mr]
    ELSE IF b.exc = "" /\ b.mr # 0 THEN [exc |-> "", mr |-> b.mr]
    ELSE [exc |-> "", mr |-> 0]

LookupRef(f, ref, b) == FirstFound(ref, by_ref_id(f, ref.ref), b)

find_related_merge_request(task, f, base) ==
    LookupRef(f, get_merge_request_ref_from_task(task),
              by_web_url(f, get_weburl_from_task(task, base)))

(***************************************************************************)
(* The resolver loop of the run (sync_mrs.py 262-269): moved_reference of  *)
(* every record with a successor, non_moved of the others.  by_ref_id is   *)
(* called outside any try: its KeyError ends the loop and the run.         *)
(***************************************************************************)
RECURSIVE ResolveLoop(_, _, _, _, _)
ResolveLoop(mrs, f, i, refs, nm) ==
    IF i > Len(mrs) THEN [exc |-> "", moved_reference |-> refs, non_moved |-> nm]
    ELSE IF ~IsNone(mrs[i].moved_to_id)
    THEN LET r == by_ref_id(f, mrs[i].moved_to_id)
         IN  IF r.exc # ""
             THEN [exc |-> r.exc, moved_reference |-> refs, non_moved |-> nm]
             ELSE ResolveLoop(mrs, f, i + 1,
                              IF r.mr # 0 THEN [refs EXCEPT ![i] = r.mr] ELSE refs,
                              nm)
    ELSE ResolveLoop(mrs, f, i + 1, refs,
                     Append(nm, get_merge_request_ref_id(mrs[i])))

(***************************************************************************)
(* update_task_with_merge_request_data (sync_mrs.py 57-139).               *)
(***************************************************************************)
\* The recursion of lines 83-102 from record i on, mref being the
\* _moved_reference of every record.  parent_ids is one list object, extended
\* in place by every call.  Reading moved_reference of a record whose
\* successor was never attached raises MovedMergeRequestNotDefined at line 88,
\* outside the try of that call: the caller's except clause catches it, and
\* the outermost call has no caller that does.  A chain that comes back to a
\* record it has left recurses until Python's RecursionError.
RECURSIVE FollowMoved(_, _, _, _, _)
FollowMoved(mrs, mref, i, parent_ids, seen) ==
    LET ids == Append(parent_ids, get_merge_request_ref_id(mrs[i]))
    IN  IF IsNone(mrs[i].moved_to_id)
        THEN [end |-> "not_moved", mr |-> i, parent_ids |-> ids]
        ELSE IF mref[i] = 0
        THEN [end |-> IF seen = {} THEN "MovedMergeRequestNotDefined"
                                   ELSE "moved_outside",
              mr |-> i, parent_ids |-> ids]
        ELSE IF mref[i] \in seen \cup {i}
        THEN [end |-> "RecursionError", mr |-> i, parent_ids |-> ids]
        ELSE FollowMoved(mrs, mref, mref[i], ids, seen \cup {i})

\* an update that writes the percentage of records with a checklist only
WritesPercentOfChecklist(task, mr) == mr.obj.has_tasks

\* an update that writes the percentage whatever the task shows
WritesPercentAlways(task, mr) == TRUE

\* line 121: the record has a checklist or the task shows zero percent
WritesPercent(task, mr) == mr.obj.has_tasks \/ task.percent_complete = 0

\* a test that takes every estimated duration for the default
SeemsDefaultWhenEstimated(task) == task.estimated

\* line 116: the duration seems to be the default
SeemsDefault(task) == task.duration = DEFAULT_DURATION /\ task.estimated

\* The field writes of the try block (lines 106-132) in the order of the
\* code, each <<field, value>>.  The type setter's two calls are the
\* collaborator's and touch none of the fields kept here.
FieldWrites(task, mr) ==
    LET estimated == time_estimated(mr)
        work == IF ~task.has_children /\ ~IsNone(estimated)
                THEN Val(estimated) ELSE task.work
        time_spend == time_spent_total(mr)
    IN  <<<<"name", mr.obj.title>>>>
        \o (IF ~IsNone(mr.obj.due_date)
            THEN <<<<"deadline", mr.obj.due_date>>>> ELSE <<>>)
        \o (IF ~task.has_children /\ ~IsNone(estimated)
            THEN <<<<"work", work>>>> ELSE <<>>)
        \o (IF SeemsDefault(task) /\ work > 0
            THEN <<<<"duration", work>>>> ELSE <<>>)
        \o (IF ~IsNone(time_spend)
            THEN <<<<"actual_work", Val(time_spend)>>>> ELSE <<>>)
        \o (IF WritesPercent(task, mr)
            THEN <<<<"percent_complete", percentage_tasks_done(mr)>>>> ELSE <<>>)
        \o <<<<"hyperlink_name", full_ref(mr)>>,
             <<"hyperlink_address", Some(mr.web_url)>>,
             <<"text29", Some(mr.web_url)>>,
             <<"text28", JoinLabels(mr.obj.labels)>>,
             <<"actual_start", mr.obj.created_at>>>>
        \o (IF Len(mr.obj.assignees) # 0
            THEN <<<<"resource_names", <<mr.obj.assignees[1]>>>>>> ELSE <<>>)
        \o (IF is_closed(mr)
            THEN <<<<"actual_finish", mr.obj.closed_at>>>> ELSE <<>>)

\* Task.percent_complete's setter (ms_project.py 167-174) refuses a value
\* outside 0..100 with MSProjectSyncError; the other setters take any value
SetterRaises(w) ==
    IF w[1] = "percent_complete" /\ ~(w[2] \in 0..100)
    THEN "MSProjectSyncError" ELSE ""

\* the first n writes of ws applied to task (no field is written twice)
ApplyWrites(task, ws, n) ==
    [f \in DOMAIN task |->
        IF \E k \in 1..n : ws[k][1] = f
        THEN ws[CHOOSE k \in 1..n : ws[k][1] = f][2]
        ELSE task[f]]

\* the first write of ws whose setter raises, 0 if none does
FirstRaise(ws) ==
    IF \E n \in 1..Len(ws) : SetterRaises(ws[n]) # ""
    THEN CHOOSE n \in 1..Len(ws) :
            /\ SetterRaises(ws[n]) # ""
            /\ \A m \in 1..(n - 1) : SetterRaises(ws[m]) = ""
    ELSE 0

\* what the except clause of line 133 catches: the two classes it names.
\* MSProjectSyncError, which the setter of percent_complete raises, is
\* another class; no record here reports a percentage outside 0..100.
Caught(exc) == exc \in {"MSProjectValueSetError", "com_error"}

\* The write that ends the try block, 0 if none does: the first of the write
\* the document refuses (fail - 1, if there is such a write) and the write r
\* whose setter raises.
StopAt(n, r, fail) ==
    IF fail > 1 /\ fail - 1 <= n /\ (r = 0 \/ fail - 1 <= r)
    THEN fail - 1 ELSE r

\* the exception of the write that ends the block
ExcAt(ws, stop, fail) ==
    IF stop = 0 THEN ""
    ELSE IF stop = fail - 1 THEN "com_error"
    ELSE SetterRaises(ws[stop])

\* lines 133-138: the task as the block left it, the exception that leaves
\* the function and the line logged
TryResult(task, exc) ==
    [task |-> task,
     exc |-> IF Caught(exc) THEN "" ELSE exc,
     log |-> IF exc = "" THEN "info" ELSE IF Caught(exc) THEN "error" ELSE ""]

TryStop(t0, ws, stop, fail) ==
    TryResult(ApplyWrites(t0, ws, IF stop = 0 THEN Len(ws) ELSE stop - 1),
              ExcAt(ws, stop, fail))

\* lines 105-138 on the task t0, ws being the writes of the block
TryBlock(t0, ws, fail) ==
    TryStop(t0, ws, StopAt(Len(ws), FirstRaise(ws), fail), fail)

\* the try block on the task that carries the back-reference
TryFields(t0, mr, fail) == TryBlock(t0, FieldWrites(t0, mr), fail)

\* Lines 103-138 on a record that is not moved.  fail = 0: the document takes
\* every write; fail = 1: the write of text30 (line 104, before the try) fails
\* with a com_error, which nothing catches; fail = k + 1: the k-th write of
\* the try block fails with one.
SyncFields(task, mr, fail) ==
    IF fail = 1 THEN [task |-> task, exc |-> "com_error", log |-> ""]
    ELSE TryFields([task EXCEPT !.text30 = BackReference(mr)], mr, fail)

\* an update that writes the fields whatever ignore_merge_request says
EndOfUpdateUnignored(task, c, w, ignore_merge_request) ==
    CASE c.end = "not_moved" ->
            [task |-> w.task, parent_ids |-> c.parent_ids,
             exc |-> w.exc, log |-> w.log, mr |-> c.mr]
      [] c.end = "moved_outside" ->
            [task |-> task, parent_ids |-> c.parent_ids, exc |-> "",
             log |-> "warning", mr |-> c.mr]
      [] OTHER ->
            [task |-> task, parent_ids |-> c.parent_ids, exc |-> c.end,
             log |-> "", mr |-> c.mr]

\* what the outermost call returns or raises, c being the end of the chain
\* and w the outcome of lines 103-138 on its last record
EndOfUpdate(task, c, w, ignore_merge_request) ==
    CASE c.end = "not_moved" /\ ignore_merge_request ->
            [task |-> task, parent_ids |-> c.parent_ids, exc |-> "",
             log |-> "", mr |-> c.mr]
      [] c.end = "not_moved" /\ ~ignore_merge_request ->
            [task |-> w.task, parent_ids |-> c.parent_ids,
             exc |-> w.exc, log |-> w.log, mr |-> c.mr]
      [] c.end = "moved_outside" ->
            [task |-> task, parent_ids |-> c.parent_ids, exc |-> "",
             log |-> "warning", mr |-> c.mr]
      [] OTHER ->
            [task |-> task, parent_ids |-> c.parent_ids, exc |-> c.end,
             log |-> "", mr |-> c.mr]

UpdateFrom(task, mrs, c, ignore_merge_request, fail) ==
    EndOfUpdate(task, c, SyncFields(task, mrs[c.mr], fail), ignore_merge_request)

\* update_task_with_merge_request_data(task, mrs[i], ignore_merge_request):
\* the task after the call, the list returned, the exception leaving it, the
\* line logged and the record the chain ended at
update_task_with_merge_request_data(task, mrs, mref, i, ignore_merge_request, fail) ==
    UpdateFrom(task, mrs, FollowMoved(mrs, mref, i, <<>>, {}),
               ignore_merge_request, fail)

(***************************************************************************)
(* State of a run of sync_gitlab_merge_requests_to_ms_project              *)
(* (sync_mrs.py 233-309).                                                  *)
(***************************************************************************)
VARIABLES
    merge_requests,   \* the list of records handed to the run
    moved_reference,  \* _moved_reference of each record, 0 for None
    tasks,            \* the document: the sequence of its task rows
    include,          \* include_merge_request: its answer for each record
                      \* asked so far (None: not asked yet)
    finder,           \* find_merge_request
    non_moved,        \* the list non_moved
    synced,           \* the list synced
    pc,               \* where the run stands
    err,              \* the exception that ended the run, "" if none
    ti,               \* position of the task loop (line 272)
    ci,               \* position of the creation loop (line 300)
    run,              \* number of the run under way
    tasks0,           \* the document as the run under way found it
    created,          \* identifiers a task was added for in this run
    matched,          \* per task of the task loop: the record found (0 for
                      \* None) and what became of the update
    faults,           \* writes the document has refused so far
    issues            \* the issue list of the combined run (sync.py), empty
                      \* when the merge-request run is called on its own

vars == <<merge_requests, moved_reference, tasks, include, finder, non_moved,
          synced, pc, err, ti, ci, run, tasks0, created, matched, faults,
          issues>>

Ids == 1..MaxRecords

NoFinder ==
    [exc |-> "", ref_id_to_merge_request |-> EmptyDict,
     web_url_to_merge_request |-> EmptyDict, first |-> 0, second |-> 0]

(***************************************************************************)
(* The inputs.  Identifiers and URLs only matter up to equality, so a list *)
(* names them in order of first appearance: the first record has           *)
(* identifier 1, and a later one an identifier seen before or the next     *)
(* new one.  Successors range over all identifiers, one absent from the    *)
(* list included when the list is shorter than MaxRecords.  The record at  *)
(* position i has the attributes Objs[i], cyclically.                      *)
(***************************************************************************)
MaxOf(S) == IF S = {} THEN 0 ELSE CHOOSE x \in S : \A y \in S : y <= x

FirstAppearance(n) ==
    {q \in [1..n -> 1..n] :
        \A i \in 1..n : q[i] <= 1 + MaxOf({q[j] : j \in 1..(i - 1)})}

OptIds == {None} \cup {Some(i) : i \in Ids}

KindAt(i) == ((i - 1) % Len(Objs)) + 1

RecordLists(n) ==
    {[i \in 1..n |-> MergeRequest(ids[i], paths[i], moved[i], KindAt(i))] :
        ids \in FirstAppearance(n), paths \in FirstAppearance(n),
        moved \in [1..n -> OptIds]}

Injective(q) == \A i, j \in DOMAIN q : q[i] = q[j] => i = j

Unique(mrs) ==
    /\ Injective([i \in DOMAIN mrs |-> mrs[i].id])
    /\ Injective([i \in DOMAIN mrs |-> mrs[i].web_url])

\* a row as an earlier run or the user left it
CustomTask ==
    [NewTask(<<"Old task">>) EXCEPT !.duration = 240, !.estimated = FALSE,
                                    !.work = 120, !.percent_complete = 40,
                                    !.actual_finish = Some(5)]

TaskKinds == {NewTask(<<"New task">>), CustomTask}

\* a text30 that starts with the prefix and goes on with what is no numeral,
\* as a hand edit of the field leaves it
BrokenReference == MR_PREFIX \o <<"n/a", ";", "1">>

Text30s ==
    {<<>>, <<"see notes">>, BrokenReference}
      \cup {BackReference(MergeRequest(i, i, None, KindAt(i))) : i \in Ids}

Hyperlinks ==
    {None, Some(OtherHost \o <<"1">>)} \cup {Some(WebUrlAt(p)) : p \in Ids}

UrlEchoes == {None} \cup {Some(WebUrlAt(p)) : p \in Ids}

TaskUniverse ==
    {[k EXCEPT !.text30 = t, !.hyperlink_address = h, !.text29 = e] :
        k \in TaskKinds, t \in Text30s, h \in Hyperlinks, e \in UrlEchoes}

Documents == UNION {[1..n -> TaskUniverse] : n \in 0..MaxTasks}

InitRun ==
    /\ moved_reference = [i \in DOMAIN merge_requests |-> 0]
    /\ include = [i \in DOMAIN merge_requests |-> None]
    /\ finder = NoFinder
    /\ non_moved = <<>>
    /\ synced = <<>>
    /\ pc = "start"
    /\ err = ""
    /\ ti = 1
    /\ ci = 1
    /\ run = 1
    /\ tasks0 = tasks
    /\ created = <<>>
    /\ matched = <<>>
    /\ faults = 0

\* lists the index accepts, with every document
InitIndexed ==
    /\ \E n \in 0..MaxRecords :
         /\ merge_requests \in RecordLists(n)
         /\ Unique(merge_requests)
    /\ tasks \in Documents
    /\ issues = <<>>
    /\ InitRun

\* lists with a shared identifier or URL: the run ends in MergeRequestFinder,
\* before a successor, the predicate or more than the presence of the
\* document is looked at
InitDuplicated ==
    /\ \E n \in 0..MaxRecords :
         /\ merge_requests \in RecordLists(n)
         /\ ~Unique(merge_requests)
         /\ \A i \in 1..n : IsNone(merge_requests[i].moved_to_id)
    /\ tasks \in {d \in Documents :
                    \A i \in DOMAIN d : /\ IsNone(d[i].text29)
                                        /\ d[i].estimated}
    /\ issues = <<>>
    /\ InitRun

Init == InitIndexed \/ InitDuplicated

(***************************************************************************)
(* The run, one action per step of sync_gitlab_merge_requests_to_ms_project*)
(***************************************************************************)
\* include_merge_request(merge_requests[i]) answers b: a pure function of the
\* record, so the answer given once is the answer ever after.  A run without
\* predicate (lines 248-253) is the one whose every answer is TRUE.
Answers(i, b) == IsNone(include[i]) \/ include[i] = Some(b)

\* a run that ends with the task loop
AfterTasksDone(nm) == "done"

\* where a run goes when the task loop is over
AfterTasks(nm) == IF Len(nm) = 0 THEN "done" ELSE "create"

Abort(exc) ==
    /\ pc' = "aborted"
    /\ err' = exc

\* lines 255-260: synced = [] and the finder; MergeRequestReferenceDuplicated
\* leaves the function
Construct ==
    /\ pc = "start"
    /\ finder' = MergeRequestFinder(merge_requests)
    /\ IF finder'.exc # "" THEN Abort(finder'.exc)
       ELSE pc' = "resolve" /\ err' = ""
    /\ UNCHANGED <<issues, merge_requests, moved_reference, tasks, include, non_moved,
                   synced, ti, ci, run, tasks0, created, matched, faults>>

Resolved(r) ==
    /\ moved_reference' = r.moved_reference
    /\ non_moved' = r.non_moved
    /\ IF r.exc # "" THEN Abort(r.exc)
       ELSE /\ pc' = IF Len(tasks) = 0 THEN AfterTasks(r.non_moved) ELSE "tasks"
            /\ err' = ""

\* lines 262-269: the loop that attaches successors and collects non_moved
ResolveMoved ==
    /\ pc = "resolve"
    /\ Resolved(ResolveLoop(merge_requests, finder, 1, moved_reference, <<>>))
    /\ UNCHANGED <<issues, merge_requests, tasks, include, finder, synced, ti, ci, run,
                   tasks0, created, matched, faults>>

\* where the run goes after the task at ti
NextTask == IF ti = Len(tasks) THEN AfterTasks(non_moved) ELSE "tasks"

\* a run that keeps only the last identifier an update returns
ExtendedByLast(list, parent_ids) == Append(list, parent_ids[Len(parent_ids)])

\* line 295: synced += the list returned
Extended(list, parent_ids) == list \o parent_ids

\* lines 295-297: the task as the update left it, and synced extended by the
\* list returned unless an exception left the call
SyncUpdated(mr, ignore, u, fail) ==
    /\ fail # 0 => (faults < MaxFaults /\ (u.log = "error" \/ u.exc = "com_error"))
    /\ faults' = IF fail = 0 THEN faults ELSE faults + 1
    /\ tasks' = [tasks EXCEPT ![ti] = u.task]
    /\ matched' = Append(matched, [mr |-> mr, ignore |-> ignore, log |-> u.log])
    /\ IF u.exc # ""
       THEN Abort(u.exc) /\ UNCHANGED <<synced, ti>>
       ELSE /\ synced' = Extended(synced, u.parent_ids)
            /\ ti' = ti + 1
            /\ pc' = NextTask
            /\ err' = ""

\* lines 275-297 with m the outcome of find_related_merge_request
SyncFound(m, fail) ==
    IF m.exc # ""
    THEN /\ Abort(m.exc)
         /\ fail = 0
         /\ UNCHANGED <<tasks, include, synced, ti, matched, faults>>
    ELSE IF m.mr = 0
    THEN /\ fail = 0
         /\ matched' = Append(matched, [mr |-> 0, ignore |-> FALSE,
                                        log |-> "info"])
         /\ ti' = ti + 1
         /\ pc' = NextTask
         /\ UNCHANGED <<tasks, include, synced, err, faults>>
    ELSE \E b \in BOOLEAN :
         /\ Answers(m.mr, b)
         /\ include' = [include EXCEPT ![m.mr] = Some(b)]
         /\ SyncUpdated(m.mr, ~b,
                        update_task_with_merge_request_data(
                            tasks[ti], merge_requests, moved_reference, m.mr,
                            ~b, fail),
                        fail)

\* lines 272-297, one turn of the loop over the tasks of the document
SyncTask(fail) ==
    /\ pc = "tasks"
    /\ ti <= Len(tasks)
    /\ SyncFound(find_related_merge_request(tasks[ti], finder, gitlab_url), fail)
    /\ UNCHANGED <<issues, merge_requests, moved_reference, finder, non_moved, ci, run,
                   tasks0, created>>

\* a creation loop that ends after its first candidate
NextCandidateDone == "done"

\* where the run goes after the candidate at ci
NextCandidate == IF ci = Len(non_moved) THEN "done" ELSE "create"

SkipCandidate ==
    /\ ci' = ci + 1
    /\ pc' = NextCandidate
    /\ UNCHANGED <<tasks, err, created, faults>>

\* add_merge_request_as_task_to_project (lines 142-149): the row is added,
\* then updated; u is the outcome of the update
Added(ref_id, u, fail) ==
    /\ fail # 0 => (faults < MaxFaults /\ (u.log = "error" \/ u.exc = "com_error"))
    /\ faults' = IF fail = 0 THEN faults ELSE faults + 1
    /\ tasks' = Append(tasks, u.task)
    /\ created' = Append(created, ref_id)
    /\ IF u.exc # ""
       THEN Abort(u.exc) /\ ci' = ci
       ELSE /\ ci' = ci + 1
            /\ pc' = NextCandidate
            /\ err' = ""

\* lines 302-309 with r the outcome of by_ref_id
AddFound(ref_id, r, fail) ==
    IF r.exc # ""
    THEN /\ fail = 0
         /\ Abort(r.exc)
         /\ UNCHANGED <<tasks, include, ci, created, faults>>
    ELSE IF r.mr = 0
    THEN fail = 0 /\ SkipCandidate /\ UNCHANGED include
    ELSE \E b \in BOOLEAN :
         /\ Answers(r.mr, b)
         /\ include' = [include EXCEPT ![r.mr] = Some(b)]
         /\ IF ~b
            THEN fail = 0 /\ SkipCandidate
            ELSE Added(ref_id,
                       update_task_with_merge_request_data(
                           NewTask(merge_requests[r.mr].obj.title),
                           merge_requests, moved_reference, r.mr, FALSE, fail),
                       fail)

\* a creation loop that forgets what the task loop synced
InSyncedNever(ref_id, list) == FALSE

\* line 301: ref_id in synced
InSynced(ref_id, list) == \E k \in 1..Len(list) : list[k] = ref_id

\* lines 300-309, one turn of the loop over non_moved
AddMissing(fail) ==
    /\ pc = "create"
    /\ ci <= Len(non_moved)
    /\ IF InSynced(non_moved[ci], synced)
       THEN fail = 0 /\ SkipCandidate /\ UNCHANGED include
       ELSE AddFound(non_moved[ci], by_ref_id(finder, Some(non_moved[ci])), fail)
    /\ UNCHANGED <<issues, merge_requests, moved_reference, finder, non_moved, synced,
                   ti, run, tasks0, matched>>

\* the caller runs the function again, on the document as the run left it and
\* the same records and predicate
Rerun ==
    /\ pc = "done"
    /\ run < MaxRuns
    /\ run' = run + 1
    /\ pc' = "start"
    /\ finder' = NoFinder
    /\ non_moved' = <<>>
    /\ synced' = <<>>
    /\ ti' = 1
    /\ ci' = 1
    /\ tasks0' = tasks
    /\ created' = <<>>
    /\ matched' = <<>>
    /\ UNCHANGED <<issues, merge_requests, moved_reference, tasks, include, err,
                   faults>>

\* a run on a document that takes every write
Next ==
    \/ Construct
    \/ ResolveMoved
    \/ SyncTask(0)
    \/ AddMissing(0)
    \/ Rerun

Spec == Init /\ [][Next]_vars

\* The writes the document can refuse in one update: 0 for none, 1 for the
\* write of text30, k + 1 for the k-th write of the try block (an update
\* writes no field twice, so there are fewer writes than fields).
FailPoints == 0..Cardinality(DOMAIN NewTask(<<>>))

\* a run on a document that can refuse a write with a com_error
NextFault ==
    \/ Construct
    \/ ResolveMoved
    \/ \E fail \in FailPoints : SyncTask(fail)
    \/ \E fail \in FailPoints : AddMissing(fail)
    \/ Rerun

SpecFault == Init /\ [][NextFault]_vars

(***************************************************************************)
(* Runs over one record and one task, with the attributes the field        *)
(* writes depend on drawn from wider sets: the task matched by its         *)
(* back-reference, or unmatched and the record added as a new task.        *)
(***************************************************************************)
\* has_tasks with completed_count and count of task_completion_status
Checklists == {<<FALSE, 0, 0>>, <<TRUE, 0, 3>>, <<TRUE, 2, 3>>}

FieldObjs ==
    {[Objs[k] EXCEPT !.time_estimate = te, !.has_tasks = cl[1],
                     !.completed_count = cl[2], !.count = cl[3]] :
        k \in DOMAIN Objs,
        te \in {None, Some(0), Some(59), Some(3600), Some(28800)},
        cl \in Checklists}

FieldTasks ==
    {[NewTask(<<"Row">>) EXCEPT !.duration = d, !.estimated = e, !.work = w,
                                !.has_children = h, !.percent_complete = p,
                                !.actual_finish = af, !.text30 = t] :
        d \in {DEFAULT_DURATION, 240}, e \in BOOLEAN, w \in {0, 120},
        h \in BOOLEAN, p \in {0, 40}, af \in {None, Some(5)},
        t \in {<<>>, BackReference(MergeRequest(1, 1, None, 1)), BrokenReference}}

InitFields ==
    /\ merge_requests \in
          {<<[MergeRequest(1, 1, None, 1) EXCEPT !.obj = o]>> : o \in FieldObjs}
    /\ tasks \in {<<t>> : t \in FieldTasks}
    /\ issues = <<>>
    /\ InitRun

SpecFields == InitFields /\ [][Next]_vars

(***************************************************************************)
(* The combined run sync_gitlab_to_ms_project (sync.py 13-33): the         *)
(* merge-request run, then the issue run on the same document.  Of the     *)
(* issue run (sync_gis.py) the model keeps what the specification says of  *)
(* every run: it starts by building the index of its records, which        *)
(* refuses a list with a shared identifier or URL; its writes to the       *)
(* document are not modelled.                                              *)
(***************************************************************************)
\* an issue, as far as the index looks at it
Issue(id, p) ==
    [id |-> id, web_url |-> gitlab_url \o <<"issues/">> \o NatStr(p)]

IssueLists ==
    UNION {{[i \in 1..n |-> Issue(ids[i], paths[i])] :
               ids \in FirstAppearance(n), paths \in FirstAppearance(n)} :
           n \in 0..MaxIssues}

\* line 32: sync_gitlab_issues_to_ms_project, called when the merge-request
\* run has returned
SyncIssues ==
    /\ pc = "done"
    /\ IF Unique(issues)
       THEN pc' = "issues_done" /\ err' = ""
       ELSE Abort("IssueReferenceDuplicated")
    /\ UNCHANGED <<merge_requests, moved_reference, tasks, include, finder,
                   non_moved, synced, ti, ci, run, tasks0, created, matched,
                   faults, issues>>

\* every list of merge requests without successors, duplicates included,
\* every list of issues and every document
InitCombined ==
    /\ \E n \in 0..MaxRecords :
         /\ merge_requests \in RecordLists(n)
         /\ \A i \in 1..n : IsNone(merge_requests[i].moved_to_id)
    /\ issues \in IssueLists
    /\ tasks \in Documents
    /\ InitRun

\* lines 30-33
NextCombined ==
    \/ Construct
    \/ ResolveMoved
    \/ SyncTask(0)
    \/ AddMissing(0)
    \/ SyncIssues

SpecCombined == InitCombined /\ [][NextCombined]_vars

(***************************************************************************)
(* Properties of the run.                                                  *)
(***************************************************************************)
\* C1: a second run on the document the first run left, with the same
\* records and predicate, adds no task and leaves every field of every task
\* as the first run left it (the back-reference is written again with the
\* same text); the second run ends as the first did, without exception.
C1_Idempotent ==
    run >= 2 =>
        /\ created = <<>>
        /\ tasks = tasks0
        /\ pc # "aborted"

\* a second run has ended on a document in which the first run updated a
\* matched task and added another
C1_Witness ==
    /\ run = 2
    /\ pc = "done"
    /\ Len(tasks) > MaxTasks
    /\ \E k \in 1..Len(matched) : matched[k].mr # 0 /\ matched[k].log = "info"
    /\ \E i \in 1..Len(tasks) : tasks0[i].text30 # <<>>

\* C2: when two records of the list share an identifier or a web URL, the run
\* ends in MergeRequestFinder with MergeRequestReferenceDuplicated, and at
\* that point the document is as the run found it: no task modified, no task
\* added, no successor attached, no task looked at.
C2_DuplicateAborts ==
    (~Unique(merge_requests) /\ pc # "start") =>
        /\ pc = "aborted"
        /\ err = "MergeRequestReferenceDuplicated"
        /\ finder.exc = "MergeRequestReferenceDuplicated"
        /\ finder.first # 0 /\ finder.first < finder.second
        /\ tasks = tasks0
        /\ created = <<>>
        /\ matched = <<>>
        /\ run = 1

\* the run has ended on two records of different identifiers that share a
\* URL, with a task in the document that carries a back-reference
C2_Witness ==
    /\ pc = "aborted"
    /\ err = "MergeRequestReferenceDuplicated"
    /\ Injective([i \in DOMAIN merge_requests |-> merge_requests[i].id])
    /\ merge_requests[finder.first].web_url
           = merge_requests[finder.second].web_url
    /\ \E i \in 1..Len(tasks) : StartsWith(tasks[i].text30, MR_PREFIX)

\* the records of mrs under other identifiers and URL paths
Renamed(mrs, ids, paths) ==
    [i \in DOMAIN mrs |->
        [mrs[i] EXCEPT !.id = ids[i], !.iid = ids[i],
                       !.web_url = WebUrlAt(paths[i])]]

\* the lookups of the index f built over the list mrs: every record is found
\* under its identifier and under its URL, None is answered with None, and a
\* key of neither dict raises KeyError
LookupsOf(f, mrs) ==
    /\ f.exc = ""
    /\ \A i \in DOMAIN mrs :
         /\ by_ref_id(f, Some(mrs[i].id)) = [exc |-> "", mr |-> i]
         /\ by_web_url(f, Some(mrs[i].web_url)) = [exc |-> "", mr |-> i]
    /\ by_ref_id(f, None) = [exc |-> "", mr |-> 0]
    /\ by_web_url(f, None) = [exc |-> "", mr |-> 0]
    /\ \A k \in 0..(MaxRecords + 1) :
         (\A i \in DOMAIN mrs : mrs[i].id # k)
            => by_ref_id(f, Some(k)) = [exc |-> "KeyError", mr |-> 0]
    /\ \A u \in {WebUrlAt(q) : q \in Ids} \cup {gitlab_url, OtherHost \o <<"1">>} :
         (\A i \in DOMAIN mrs : mrs[i].web_url # u)
            => by_web_url(f, Some(u)) = [exc |-> "KeyError", mr |-> 0]

\* C3: over a list of pairwise distinct identifiers and pairwise distinct
\* URLs the construction of MergeRequestFinder succeeds; by_ref_id and
\* by_web_url return every record under its own key, return None for None and
\* raise KeyError for a key the index lacks.  Stated of the index of the run
\* and, as the run builds it, of the index of the same records under every
\* other assignment of distinct identifiers and URLs.
C3_FinderLookups ==
    /\ (Unique(merge_requests) /\ pc # "start")
          => LookupsOf(finder, merge_requests)
    /\ (Unique(merge_requests) /\ pc = "resolve")
          => \A ids, paths \in {q \in [DOMAIN merge_requests -> Ids] : Injective(q)} :
                LookupsOf(MergeRequestFinder(Renamed(merge_requests, ids, paths)),
                          Renamed(merge_requests, ids, paths))

\* the index of two records has been built: it finds the second record by
\* identifier and by URL and has neither key for a third
C3_Witness ==
    /\ pc = "resolve"
    /\ Len(merge_requests) = 2
    /\ finder.exc = ""
    /\ by_ref_id(finder, Some(merge_requests[2].id)).mr = 2
    /\ by_web_url(finder, Some(merge_requests[2].web_url)).mr = 2
    /\ by_ref_id(finder, Some(3)).exc = "KeyError"
    /\ by_web_url(finder, Some(WebUrlAt(3))).exc = "KeyError"

\* the calls of add_merge_request_as_task_to_project for the identifier id
Creations(id) == Cardinality({k \in 1..Len(created) : created[k] = id})

\* record i has no successor, its identifier is not in synced and the
\* predicate has accepted it
Eligible(i) ==
    /\ IsNone(merge_requests[i].moved_to_id)
    /\ \A k \in 1..Len(synced) : synced[k] # merge_requests[i].id
    /\ include[i] = Some(TRUE)

\* C4: in one run a task is added for a record exactly if the record has no
\* successor, its identifier is not in the list synced that the loop over the
\* tasks has built, and the predicate accepts it; one task is added for each
\* such record (the predicate is asked about every record without successor
\* that synced lacks), and the document grows by the tasks added and nothing
\* else.
C4_CreationDedup ==
    /\ pc \in {"create", "done"} =>
          /\ \A i \in DOMAIN merge_requests :
                Creations(merge_requests[i].id) = 1 => Eligible(i)
          /\ \A k \in 1..Len(created) :
                /\ Creations(created[k]) = 1
                /\ \E i \in DOMAIN merge_requests :
                      /\ merge_requests[i].id = created[k]
                      /\ tasks[Len(tasks0) + k].text30
                            = BackReference(merge_requests[i])
          /\ Len(tasks) = Len(tasks0) + Len(created)
    /\ pc = "done" =>
          \A i \in DOMAIN merge_requests :
            /\ Creations(merge_requests[i].id) = IF Eligible(i) THEN 1 ELSE 0
            /\ (/\ IsNone(merge_requests[i].moved_to_id)
                /\ \A k \in 1..Len(synced) : synced[k] # merge_requests[i].id)
                  => ~IsNone(include[i])

\* B supersedes A, C is independent and the task of the document matches B:
\* the run has ended with one task added, the one for C
C4_Witness ==
    /\ pc = "done"
    /\ run = 1
    /\ Len(merge_requests) = 3
    /\ merge_requests[1].moved_to_id = Some(merge_requests[2].id)
    /\ IsNone(merge_requests[2].moved_to_id)
    /\ IsNone(merge_requests[3].moved_to_id)
    /\ Len(matched) = 1 /\ matched[1].mr = 2 /\ matched[1].log = "info"
    /\ created = <<merge_requests[3].id>>
    /\ Len(tasks) = 2

\* the back-reference of task decodes to the identifier of record i
RefersTo(task, i) ==
    /\ get_merge_request_ref_from_task(task).exc = ""
    /\ get_merge_request_ref_from_task(task).ref = Some(merge_requests[i].id)

\* the hyperlink of task starts with the base URL and is the URL of record j
LinksTo(task, j) ==
    /\ ~IsNone(task.hyperlink_address)
    /\ is_gitlab_hyperlink(Val(task.hyperlink_address), gitlab_url)
    /\ Val(task.hyperlink_address) = merge_requests[j].web_url

\* C5: for a task whose back-reference names a record of the index and whose
\* hyperlink is the URL of another record of the index, the record
\* find_related_merge_request returns to the run is the one of the
\* back-reference, not the one of the hyperlink.
C5_BackReferenceFirst ==
    \A k \in 1..Len(matched) :
        \A i, j \in DOMAIN merge_requests :
            (i # j /\ RefersTo(tasks0[k], i) /\ LinksTo(tasks0[k], j))
                => (matched[k].mr = i /\ matched[k].mr # j)

\* the run has matched a task whose back-reference names the first record
\* and whose hyperlink is the URL of the second
C5_Witness ==
    /\ Len(matched) = 1
    /\ Len(merge_requests) >= 2
    /\ RefersTo(tasks0[1], 1)
    /\ LinksTo(tasks0[1], 2)
    /\ matched[1].mr = 1

\* record i names a successor that no record of the list has as identifier
AbsentSuccessor(i) ==
    /\ ~IsNone(merge_requests[i].moved_to_id)
    /\ \A j \in DOMAIN merge_requests :
          merge_requests[j].id # Val(merge_requests[i].moved_to_id)

\* C6: a record whose successor is absent from the list does not end the
\* run: the resolver leaves its moved reference unset and attaches the
\* successor of every record whose successor is in the list, a task matched
\* to the record is left as it was with a warning logged, and the run goes on
\* with the remaining tasks and the creation loop.
C6_UnresolvedRecoverable ==
    Unique(merge_requests) =>
        /\ (\E i \in DOMAIN merge_requests : AbsentSuccessor(i))
              => ~(pc = "aborted"
                     /\ err \in {"KeyError", "MovedMergeRequestNotDefined"})
        /\ pc \in {"tasks", "create", "done"} =>
              \A i, j \in DOMAIN merge_requests :
                /\ AbsentSuccessor(i) => moved_reference[i] = 0
                /\ merge_requests[i].moved_to_id = Some(merge_requests[j].id)
                      => moved_reference[i] = j
        /\ \A k \in 1..Len(matched) :
              (matched[k].mr # 0 /\ AbsentSuccessor(matched[k].mr))
                 => (tasks[k] = tasks0[k] /\ matched[k].log = "warning")

\* the run has ended with the KeyError of the resolver: no task of the
\* document was looked at and no task was added, though a record without
\* successor and a task with a back-reference were there
C6_Witness ==
    /\ pc = "aborted"
    /\ err = "KeyError"
    /\ \E i \in DOMAIN merge_requests : AbsentSuccessor(i)
    /\ \E i \in DOMAIN merge_requests : IsNone(merge_requests[i].moved_to_id)
    /\ \E k \in 1..Len(tasks) : StartsWith(tasks[k].text30, MR_PREFIX)
    /\ matched = <<>>
    /\ created = <<>>

\* C7: a write of a task field that the document refuses during an update
\* (the back-reference in text30 or any later field) is caught and logged,
\* and never leaves sync_gitlab_merge_requests_to_ms_project: the run goes
\* on with the next task or record.
C7_WriteFailureRecoverable ==
    faults > 0 =>
        /\ ~(pc = "aborted" /\ err = "com_error")
        /\ \A k \in 1..Len(matched) : matched[k].mr # 0 =>
              (matched[k].ignore \/ matched[k].log \in {"info", "error", "warning"})

\* the document has refused the back-reference of a matched task and the
\* com_error has ended the run in the loop over the tasks, the task as it was
C7_Witness ==
    /\ pc = "aborted"
    /\ err = "com_error"
    /\ faults = 1
    /\ Len(matched) = 1
    /\ matched[1].mr # 0 /\ ~matched[1].ignore /\ matched[1].log = ""
    /\ tasks = tasks0
    /\ non_moved # <<>>

\* no record of the list has the identifier the back-reference of task
\* decodes to, if it decodes to one
NoRecordByRef(task) ==
    /\ get_merge_request_ref_from_task(task).exc = ""
    /\ \A i \in DOMAIN merge_requests :
          get_merge_request_ref_from_task(task).ref # Some(merge_requests[i].id)

\* no record of the list has the URL get_weburl_from_task takes from task,
\* if it takes one
NoRecordByUrl(task) ==
    \A i \in DOMAIN merge_requests :
        get_weburl_from_task(task, gitlab_url) # Some(merge_requests[i].web_url)

\* C8: a task that carries neither a back-reference nor a URL of a record of
\* the index is answered with None by find_related_merge_request; a task so
\* answered has every field as the run found it, and the miss does not end
\* the run: a KeyError ends a run only in the resolver, the run goes on after
\* the task, and a run that ends has been through the creation loop.
C8_UnmatchedUntouched ==
    /\ \A k \in 1..Len(matched) :
          /\ (NoRecordByRef(tasks0[k]) /\ NoRecordByUrl(tasks0[k]))
                => matched[k].mr = 0
          /\ matched[k].mr = 0 =>
                /\ tasks[k] = tasks0[k]
                /\ k = Len(matched) => pc \in {"tasks", "create", "done"}
                /\ pc = "tasks" => ti > k
    /\ (pc = "aborted" /\ err = "KeyError")
          => (matched = <<>> /\ \E i \in DOMAIN merge_requests : AbsentSuccessor(i))
    /\ pc = "done" => (ti > Len(tasks0) /\ (non_moved # <<>> => ci > Len(non_moved)))

\* a run has ended in which the task of the document, naming in its
\* back-reference and in its hyperlink a record the list lacks, was answered
\* with None, and a task was added after it
C8_Witness ==
    /\ pc = "done"
    /\ run = 1
    /\ Len(matched) = 1 /\ matched[1].mr = 0
    /\ get_merge_request_ref_from_task(tasks0[1]).ref = Some(3)
    /\ get_weburl_from_task(tasks0[1], gitlab_url) = Some(WebUrlAt(3))
    /\ Len(merge_requests) = 2
    /\ tasks[1] = tasks0[1]
    /\ created # <<>>

\* the records of the resolved move chain that starts at record i
RECURSIVE Chain(_, _)
Chain(i, seen) ==
    IF i = 0 \/ i \in seen THEN seen
    ELSE Chain(moved_reference[i], seen \cup {i})

\* C9: when the predicate rejects the record a task matches, no field of
\* the task is written in the run, the back-reference included; once the
\* update has returned, the identifiers of the record and of every record of
\* its resolved move chain are in synced, and the run adds a task for none
\* of them.
C9_IgnoredStillSynced ==
    \A k \in 1..Len(matched) :
        (matched[k].mr # 0 /\ matched[k].ignore) =>
            /\ tasks[k] = tasks0[k]
            /\ include[matched[k].mr] = Some(FALSE)
            /\ ~(pc = "aborted" /\ k = Len(matched)) =>
                  \A j \in Chain(matched[k].mr, {}) :
                      /\ \E n \in 1..Len(synced) :
                            synced[n] = merge_requests[j].id
                      /\ Creations(merge_requests[j].id) = 0

\* a run has ended in which the task, without back-reference, was matched by
\* its hyperlink to a rejected record that was moved to another: both
\* identifiers are in synced, the task is as it was, and no task was added
\* for the successor
C9_Witness ==
    /\ pc = "done"
    /\ run = 1
    /\ Len(matched) = 1 /\ matched[1].mr = 1 /\ matched[1].ignore
    /\ tasks0[1].text30 = <<>>
    /\ Len(merge_requests) = 3
    /\ moved_reference[1] = 2
    /\ IsNone(merge_requests[2].moved_to_id)
    /\ synced = <<merge_requests[1].id, merge_requests[2].id>>
    /\ created = <<merge_requests[3].id>>
    /\ tasks[1] = tasks0[1]

\* C10: an update leaves a duration other than DEFAULT_DURATION as it is,
\* whatever the record estimates; the duration changes only when it was
\* DEFAULT_DURATION on a task flagged estimated whose work, after the write
\* of the estimate, is positive, and then it becomes that work.
C10_DurationKept ==
    \A k \in 1..Len(matched) : matched[k].mr # 0 =>
        /\ tasks0[k].duration # DEFAULT_DURATION
              => tasks[k].duration = tasks0[k].duration
        /\ tasks[k].duration # tasks0[k].duration
              => /\ tasks0[k].duration = DEFAULT_DURATION
                 /\ tasks0[k].estimated
                 /\ tasks[k].work > 0
                 /\ tasks[k].duration = tasks[k].work
        /\ (/\ matched[k].log = "info"
            /\ tasks0[k].duration = DEFAULT_DURATION
            /\ tasks0[k].estimated
            /\ tasks[k].work > 0)
              => tasks[k].duration = tasks[k].work

\* an estimated task of four hours has been updated from a record that
\* estimates one hour: the work is now 60 minutes, the duration still 240
C10_Witness ==
    /\ Len(matched) = 1 /\ matched[1].mr = 1 /\ matched[1].log = "info"
    /\ tasks0[1].duration = 240
    /\ tasks0[1].estimated
    /\ tasks0[1].work = 0
    /\ merge_requests[1].obj.time_estimate = Some(3600)
    /\ tasks[1].work = 60
    /\ tasks[1].duration = 240

\* C11: when the record the fields are taken from (a record without
\* successor) has no checklist (has_tasks is false) and the task it is
\* matched to shows a percentage other than zero, the update leaves
\* percent_complete as it was; it is not reset to 0.
C11_PercentGuard ==
    \A k \in 1..Len(matched) :
        (/\ matched[k].mr # 0
         /\ IsNone(merge_requests[matched[k].mr].moved_to_id)
         /\ ~merge_requests[matched[k].mr].obj.has_tasks
         /\ tasks0[k].percent_complete # 0)
            => /\ tasks[k].percent_complete = tasks0[k].percent_complete
               /\ tasks[k].percent_complete # 0

\* a task at 40 percent has been updated from an open record without
\* checklist, whose percentage_tasks_done is 0: the task is still at 40
C11_Witness ==
    /\ Len(matched) = 1 /\ matched[1].mr = 1 /\ matched[1].log = "info"
    /\ tasks0[1].percent_complete = 40
    /\ ~merge_requests[1].obj.has_tasks
    /\ percentage_tasks_done(merge_requests[1]) = 0
    /\ tasks[1].percent_complete = 40
    /\ tasks[1].name = merge_requests[1].obj.title

\* the task the run has added by its k-th call of
\* add_merge_request_as_task_to_project
AddedTask(k) == tasks[Len(tasks0) + k]

\* C12: for a closed record without successor that no task matches and the
\* predicate accepts, the run appends exactly one task; its name is the
\* title of the record, its work the estimate of the record in whole minutes
\* (3600 s gives 60), its percent_complete 100, its actual_finish the
\* closed_at of the record, and its text30 decodes to the identifier of the
\* record.
C12_CreatedFromClosed ==
    /\ pc \in {"create", "done"} =>
          \A k \in 1..Len(created) : \A i \in DOMAIN merge_requests :
              (merge_requests[i].id = created[k] /\ is_closed(merge_requests[i]))
                => /\ Creations(created[k]) = 1
                   /\ AddedTask(k).name = merge_requests[i].obj.title
                   /\ ~IsNone(merge_requests[i].obj.time_estimate) =>
                         AddedTask(k).work
                            = Val(merge_requests[i].obj.time_estimate) \div 60
                   /\ AddedTask(k).percent_complete = 100
                   /\ AddedTask(k).actual_finish = merge_requests[i].obj.closed_at
                   /\ get_merge_request_ref_from_task(AddedTask(k))
                         = [exc |-> "", ref |-> Some(merge_requests[i].id)]
    /\ pc = "done" =>
          \A i \in DOMAIN merge_requests :
              (/\ is_closed(merge_requests[i])
               /\ Eligible(i))
                 => Creations(merge_requests[i].id) = 1

\* the run has ended with one task added for the closed record "Fix crash"
\* estimated at 3600 s, beside a task that matched nothing: work 60, 100
\* percent, finished when the record was closed
C12_Witness ==
    /\ pc = "done"
    /\ run = 1
    /\ Len(matched) = 1 /\ matched[1].mr = 0
    /\ created = <<merge_requests[1].id>>
    /\ Len(tasks) = 2
    /\ merge_requests[1].obj.state = <<"closed">>
    /\ merge_requests[1].obj.time_estimate = Some(3600)
    /\ tasks[2].name = <<"Fix crash">>
    /\ tasks[2].work = 60
    /\ tasks[2].percent_complete = 100
    /\ tasks[2].actual_finish = Some(20)

\* set_merge_request_ref_to_task followed by get_merge_request_ref_from_task
\* gives the identifier of the record, on every task of the document and for
\* every record of the list, with or without group id
RoundTrip ==
    \A k \in 1..Len(tasks) : \A i \in DOMAIN merge_requests :
        get_merge_request_ref_from_task(
            [tasks[k] EXCEPT !.text30 = BackReference(merge_requests[i])])
          = [exc |-> "", ref |-> Some(get_merge_request_ref_id(merge_requests[i]))]

\* C13: get_merge_request_ref_from_task returns None for a text30 that is
\* empty or does not start with MR_PREFIX, and for every other text30 returns
\* the identifier parsed from the first segment after the prefix, so that no
\* run ends in the decoding; encoding a record into a task and decoding the
\* task gives the identifier of the record.
C13_Codec ==
    /\ \A k \in 1..Len(tasks) :
          IF tasks[k].text30 = <<>> \/ ~StartsWith(tasks[k].text30, MR_PREFIX)
          THEN get_merge_request_ref_from_task(tasks[k])
                 = [exc |-> "", ref |-> None]
          ELSE /\ get_merge_request_ref_from_task(tasks[k]).exc = ""
               /\ ~IsNone(get_merge_request_ref_from_task(tasks[k]).ref)
    /\ RoundTrip
    /\ err # "ValueError"

\* the run has ended with the ValueError of int() on the first segment of a
\* text30 that starts with the prefix, before the task loop handled a task
C13_Witness ==
    /\ pc = "aborted"
    /\ err = "ValueError"
    /\ matched = <<>>
    /\ tasks = tasks0
    /\ StartsWith(tasks[1].text30, MR_PREFIX)
    /\ merge_requests # <<>>

\* the record is in a state that ends its life: closed or merged
Terminal(mr) == mr.obj.state \in {<<"closed">>, <<"merged">>}

\* C14: over the states opened, closed and merged, an update that runs to
\* its end sets actual_finish of the task to closed_at of the record exactly
\* when the record is closed or merged, and leaves actual_finish as it was
\* when the record is open.
C14_ActualFinish ==
    \A k \in 1..Len(matched) :
        (/\ matched[k].mr # 0
         /\ IsNone(merge_requests[matched[k].mr].moved_to_id)
         /\ matched[k].log = "info")
            => tasks[k].actual_finish
                 = IF Terminal(merge_requests[matched[k].mr])
                   THEN merge_requests[matched[k].mr].obj.closed_at
                   ELSE tasks0[k].actual_finish

\* a task with an actual finish of its own has been updated from a merged
\* record: is_closed is false of it, and the task has kept its finish
C14_Witness ==
    /\ Len(matched) = 1 /\ matched[1].mr = 1 /\ matched[1].log = "info"
    /\ merge_requests[1].obj.state = <<"merged">>
    /\ ~is_closed(merge_requests[1])
    /\ tasks0[1].actual_finish = Some(5)
    /\ tasks[1].actual_finish = Some(5)
    /\ tasks[1].actual_finish # merge_requests[1].obj.closed_at

\* what the code does: actual_finish is written exactly when the state of
\* the record starts with "closed"
ActualFinishWhenClosed ==
    \A k \in 1..Len(matched) :
        (/\ matched[k].mr # 0
         /\ IsNone(merge_requests[matched[k].mr].moved_to_id)
         /\ matched[k].log = "info")
            => tasks[k].actual_finish
                 = IF merge_requests[matched[k].mr].obj.state = <<"closed">>
                   THEN merge_requests[matched[k].mr].obj.closed_at
                   ELSE tasks0[k].actual_finish

\* C15: over every list the index accepts, lists whose successors form a
\* cycle included, the recursion of update_task_with_merge_request_data from
\* any record comes, after finitely many calls, to a record without
\* successor or to a successor that was never attached; no update ends in
\* Python's RecursionError.
C15_ChainTerminates ==
    /\ pc \in {"tasks", "create", "done"} =>
          \A i \in DOMAIN merge_requests :
              FollowMoved(merge_requests, moved_reference, i, <<>>, {}).end
                 \in {"not_moved", "moved_outside", "MovedMergeRequestNotDefined"}
    /\ err # "RecursionError"

\* the run has ended with the RecursionError of an update: the task matched
\* the first of two records that are moved to each other
C15_Witness ==
    /\ pc = "aborted"
    /\ err = "RecursionError"
    /\ Len(merge_requests) >= 2
    /\ moved_reference[1] = 2
    /\ moved_reference[2] = 1
    /\ Len(matched) = 1 /\ matched[1].mr = 1
    /\ tasks = tasks0

\* the task loop has handed task k to an update from a record without
\* successor, the record the fields are taken from
UpdatedFrom(k) ==
    /\ matched[k].mr # 0
    /\ IsNone(merge_requests[matched[k].mr].moved_to_id)
    /\ ~matched[k].ignore

\* C16 as stated: whatever the record (with or without checklist, open or
\* closed), percent_complete of a task after an update is at least what it
\* was before, in every run.
C16_NeverDecreased ==
    \A k \in 1..Len(matched) :
        UpdatedFrom(k) => tasks[k].percent_complete >= tasks0[k].percent_complete

\* C16, amended: in every run, an update from a record without checklist
\* does not decrease percent_complete (it sets the record's percentage when
\* the task is at zero and leaves the task alone otherwise); an update from
\* a record with a checklist sets percent_complete to the record's
\* percentage, be it lower or higher than what the task showed.
C16_PercentFollowsChecklist ==
    \A k \in 1..Len(matched) : UpdatedFrom(k) =>
        /\ ~merge_requests[matched[k].mr].obj.has_tasks
              => tasks[k].percent_complete >= tasks0[k].percent_complete
        /\ (/\ matched[k].log = "info"
            /\ \/ merge_requests[matched[k].mr].obj.has_tasks
               \/ tasks0[k].percent_complete = 0)
              => tasks[k].percent_complete
                   = percentage_tasks_done(merge_requests[matched[k].mr])

\* a task at 40 percent has been updated from an open record whose checklist
\* has none of its three items done: the task is at 0 percent
C16_Witness ==
    /\ Len(matched) = 1 /\ matched[1].mr = 1 /\ matched[1].log = "info"
    /\ merge_requests[1].obj.has_tasks
    /\ merge_requests[1].obj.completed_count = 0
    /\ ~is_closed(merge_requests[1])
    /\ tasks0[1].percent_complete = 40
    /\ tasks[1].percent_complete = 0

\* the back-reference of task decodes to an identifier no record has
StaleReference(task) ==
    /\ get_merge_request_ref_from_task(task).exc = ""
    /\ ~IsNone(get_merge_request_ref_from_task(task).ref)
    /\ NoRecordByRef(task)

\* the Optional url starts with the base URL
Prefixed(url) == ~IsNone(url) /\ StartsWith(Val(url), gitlab_url)

\* the record of the list at the Optional url, 0 if there is none
RecordAt(url) ==
    IF \E i \in DOMAIN merge_requests : Some(merge_requests[i].web_url) = url
    THEN CHOOSE i \in DOMAIN merge_requests : Some(merge_requests[i].web_url) = url
    ELSE 0

\* C17: for a task whose back-reference names an identifier the index
\* lacks, find_related_merge_request goes on to the URL: it returns the
\* record at the hyperlink address when that address starts with the base
\* URL (None if the index has no such URL, text29 not being tried), the
\* record at text29 when only text29 starts with the base URL, and None when
\* neither does or the lookup misses.
C17_StaleFallsThrough ==
    \A k \in 1..Len(matched) : StaleReference(tasks0[k]) =>
        matched[k].mr =
            IF Prefixed(tasks0[k].hyperlink_address)
            THEN RecordAt(tasks0[k].hyperlink_address)
            ELSE IF Prefixed(tasks0[k].text29)
            THEN RecordAt(tasks0[k].text29)
            ELSE 0

\* a task whose back-reference names a record the list lacks, whose
\* hyperlink leads elsewhere and whose text29 is the URL of the second
\* record, has been matched to the second record
C17_Witness ==
    /\ Len(matched) = 1
    /\ Len(merge_requests) = 2
    /\ get_merge_request_ref_from_task(tasks0[1]).ref = Some(3)
    /\ ~IsNone(tasks0[1].hyperlink_address)
    /\ ~Prefixed(tasks0[1].hyperlink_address)
    /\ tasks0[1].text29 = Some(merge_requests[2].web_url)
    /\ matched[1].mr = 2

\* the identifiers along the resolved move chain from record i on, at most
\* fuel of them
RECURSIVE ChainIds(_, _)
ChainIds(i, fuel) ==
    IF i = 0 \/ fuel = 0 THEN <<>>
    ELSE <<merge_requests[i].id>> \o ChainIds(moved_reference[i], fuel - 1)

\* the record without successor that the chain from record i ends at
RECURSIVE ChainEnd(_, _)
ChainEnd(i, fuel) ==
    IF moved_reference[i] = 0 \/ fuel = 0 THEN i
    ELSE ChainEnd(moved_reference[i], fuel - 1)

\* the update of task k has returned: it found a record, and it is not the
\* update whose exception ended the run
Returned(k) ==
    /\ matched[k].mr # 0
    /\ ~(pc = "aborted" /\ err = "RecursionError" /\ k = Len(matched))

\* what the updates of the first k tasks have returned, one after the other
RECURSIVE SyncedUpTo(_)
SyncedUpTo(k) ==
    IF k = 0 THEN <<>>
    ELSE SyncedUpTo(k - 1)
           \o (IF Returned(k)
               THEN ChainIds(matched[k].mr, Len(merge_requests)) ELSE <<>>)

\* C18: an update from a record R0 whose resolved chain is R0, R1, ..., Rn
\* returns the identifiers of R0, ..., Rn in that order whether or not the
\* record is ignored, and writes the fields, when it is not ignored, from Rn
\* and no other record; synced holds the lists returned for the matched
\* tasks, in the order of the tasks, and nothing else.
C18_ConsumedIds ==
    /\ synced = SyncedUpTo(Len(matched))
    /\ \A k \in 1..Len(matched) :
          (Returned(k) /\ ~matched[k].ignore /\ matched[k].log = "info") =>
             /\ tasks[k].text30
                   = BackReference(merge_requests[
                        ChainEnd(matched[k].mr, Len(merge_requests))])
             /\ tasks[k].name
                   = merge_requests[
                        ChainEnd(matched[k].mr, Len(merge_requests))].obj.title
             /\ tasks[k].text29
                   = Some(merge_requests[
                        ChainEnd(matched[k].mr, Len(merge_requests))].web_url)
    /\ \A k \in 1..Len(matched) :
          (Returned(k) /\ matched[k].ignore) => tasks[k] = tasks0[k]

\* the task loop has ended after an update from the first record, moved to
\* the second, moved to the third, and rejected by the predicate: synced is
\* the three identifiers in chain order
C18_Witness ==
    /\ pc \in {"create", "done"}
    /\ run = 1
    /\ Len(merge_requests) = 3
    /\ moved_reference[1] = 2
    /\ moved_reference[2] = 3
    /\ moved_reference[3] = 0
    /\ Len(matched) = 1 /\ matched[1].mr = 1 /\ matched[1].ignore
    /\ synced = <<merge_requests[1].id, merge_requests[2].id,
                  merge_requests[3].id>>

\* C19: when the merge-request list or the issue list of the combined run
\* has two records that share an identifier or a URL, the run is aborted
\* with no task of the document modified and none added: no index is built
\* after a pass has written to the document.
C19_IntegrityFirst ==
    (~Unique(merge_requests) \/ ~Unique(issues)) =>
        /\ tasks = tasks0
        /\ created = <<>>
        /\ pc # "issues_done"

\* the combined run has ended in the index of the issues, after the
\* merge-request run has updated the task of the document and added another
C19_Witness ==
    /\ pc = "aborted"
    /\ err = "IssueReferenceDuplicated"
    /\ Unique(merge_requests)
    /\ ~Unique(issues)
    /\ \E k \in 1..Len(matched) : matched[k].log = "info" /\ tasks[k] # tasks0[k]
    /\ created # <<>>

\* some task of the document carries a back-reference that decodes to the
\* identifier of record i
Represented(i) ==
    \E k \in 1..Len(tasks) :
        get_merge_request_ref_from_task(tasks[k])
          = [exc |-> "", ref |-> Some(merge_requests[i].id)]

\* Record i can be a record the predicate accepts: the predicate has not
\* answered FALSE for it.  A record the run never asked about is accepted by
\* a predicate under which the run is the same run.
Acceptable(i) == include[i] # Some(FALSE)

\* a task of the task loop matched a record that the predicate rejected and
\* whose resolved chain holds record i
ConsumedIgnored(i) ==
    \E k \in 1..Len(matched) :
        /\ matched[k].mr # 0
        /\ matched[k].ignore
        /\ i \in Chain(matched[k].mr, {})

\* C20 as stated: when a run has completed, every record without successor
\* that the predicate accepts has a task whose back-reference decodes to its
\* identifier, also when the only task that leads to it matched a superseded
\* predecessor that the predicate rejects.
C20_Coverage ==
    pc = "done" =>
        \A i \in DOMAIN merge_requests :
            (IsNone(merge_requests[i].moved_to_id) /\ Acceptable(i))
                => Represented(i)

\* C20, amended: when a run has completed, every record without successor
\* that the predicate accepts has a task whose back-reference decodes to its
\* identifier, unless a task matched the record or a predecessor of it and
\* the predicate rejected the record matched: then the chain is consumed
\* without a write, and the record has such a task only if one was there.
C20_CoverageUnlessIgnored ==
    pc = "done" =>
        \A i \in DOMAIN merge_requests :
            (/\ IsNone(merge_requests[i].moved_to_id)
             /\ Acceptable(i)
             /\ ~ConsumedIgnored(i))
                => Represented(i)

\* a run has ended in which the task matched the first record, moved to the
\* second and rejected by the predicate: no task has been added, the
\* predicate has not been asked about the second record, and no task names
\* it; the third record, matched by no task, has its task
C20_Witness ==
    /\ pc = "done"
    /\ run = 1
    /\ Len(merge_requests) = 3
    /\ moved_reference[1] = 2
    /\ IsNone(merge_requests[2].moved_to_id)
    /\ Len(matched) = 1 /\ matched[1].mr = 1 /\ matched[1].ignore
    /\ IsNone(include[2])
    /\ ~Represented(2)
    /\ Represented(3)
    /\ created = <<merge_requests[3].id>>

=============================================================================
